---- MODULE Spec2Model ----
(***************************************************************************)
(* Model of cutadapt's src/cutadapt/filters.py: the filter predicates, the *)
(* redirector stages, the demultiplexer family and the open-with-retry     *)
(* utility.  Reads, matches, writers and the open-files-limit capability   *)
(* are external; they are modelled at their interface.                     *)
(***************************************************************************)
EXTENDS Integers, Sequences, FiniteSets, TLC

\* ---------------------------------------------------------------- bounds
MaxLen == 1
MaxMatches == 2
MaxMatches2 == 1
MaxCalls == 2
MaxClose == 2
MaxStages == 2
MaxNLen == 3
MaxNum == 3
MaxDen == 2

\* ------------------------------------------------------- external values
None == "None"
NoPath == <<>>
NoWriter == 0

Bases == {"A", "N"}
ReadNames == {"r"}
AdapterNames == {"a", "b"}

\* A read: a name and a sequence; len(read) is the length of the sequence.
Sequences0(S, n) == UNION {[1..k -> S] : k \in 0..n}
Reads == [name : ReadNames, sequence : Sequences0(Bases, MaxLen)]
ReadLen(read) == Len(read.sequence)

\* A match record exposes the adapter it belongs to and the rest of the
\* sequence it cut off; a read's matches form an ordered list whose last
\* element is the most recent match.
Rests == {"", "T"}
Matches == [adapter : AdapterNames, rest : Rests]
AllMatchLists == Sequences0(Matches, MaxMatches)
\* The demultiplexers and the paired stages never look at the rest.
PlainMatches == [adapter : AdapterNames, rest : {""}]
MatchLists == Sequences0(PlainMatches, MaxMatches)
MatchLists2 == Sequences0(PlainMatches, MaxMatches2)
LastName(matches) == matches[Len(matches)].adapter

\* str.replace on a path template, the template being a sequence of tokens.
Replace(template, token, name) ==
    [i \in DOMAIN template |-> IF template[i] = token THEN name ELSE template[i]]
Contains(template, token) == \E i \in DOMAIN template : template[i] = token

\* ------------------------------------------------- errors and the writers
NoError == [type |-> "none", errno |-> "none", attempt |-> 0]
OSError(errno, attempt) == [type |-> "OSError", errno |-> errno, attempt |-> attempt]
LimitError == [type |-> "LimitError", errno |-> "none", attempt |-> 0]
WriteError == [type |-> "WriteError", errno |-> "none", attempt |-> 0]
AssertionError == [type |-> "AssertionError", errno |-> "none", attempt |-> 0]
ValueError == [type |-> "ValueError", errno |-> "none", attempt |-> 0]
TypeError == [type |-> "TypeError", errno |-> "none", attempt |-> 0]

\* What the operating system answers during one call of _open_raise_limit:
\* o1 to the first open, rl to the request for a higher limit, o2 to the
\* second open ("-" where the question is never asked).
OpenEnvs ==
    { [o1 |-> "ok", rl |-> "-", o2 |-> "-"],
      [o1 |-> "EACCES", rl |-> "-", o2 |-> "-"],
      [o1 |-> "EMFILE", rl |-> "fail", o2 |-> "-"],
      [o1 |-> "EMFILE", rl |-> "ok", o2 |-> "ok"],
      [o1 |-> "EMFILE", rl |-> "ok", o2 |-> "EMFILE"],
      [o1 |-> "EMFILE", rl |-> "ok", o2 |-> "EACCES"] }
EnvOk == [o1 |-> "ok", rl |-> "-", o2 |-> "-"]

\* dnaio.open(path, mode="w"): the outcome of the attempt-th attempt.
dnaio_open(path, attempt, env) == IF attempt = 1 THEN env.o1 ELSE env.o2

\* raise_open_files_limit(n) of cutadapt.utils: raises the soft limit or fails.
LimitIncrement == 8
raise_open_files_limit(n, env) == env.rl

Ev(op, res) == [op |-> op, res |-> res]

\* e.errno == errno.EMFILE: the one failure that is answered by a retry.
IsTooManyOpenFilesAny(errno) == TRUE
IsTooManyOpenFiles(errno) == errno = "EMFILE"

\* _open_raise_limit(path, qualities): the events it causes, whether it
\* returned a writer, and the error that left it otherwise.
OpenRaiseLimit(path, qualities, env) ==
    LET r1 == dnaio_open(path, 1, env)
    IN  IF r1 = "ok"
        THEN [ok |-> TRUE, err |-> NoError, events |-> <<Ev("open", r1)>>]
        ELSE IF IsTooManyOpenFiles(r1)
        THEN LET rl == raise_open_files_limit(LimitIncrement, env)
             IN  IF rl # "ok"
                 THEN [ok |-> FALSE, err |-> LimitError,
                       events |-> <<Ev("open", r1), Ev("raise_limit", rl)>>]
                 ELSE LET r2 == dnaio_open(path, 2, env)
                      IN  [ok |-> r2 = "ok",
                           err |-> IF r2 = "ok" THEN NoError ELSE OSError(r2, 2),
                           events |-> <<Ev("open", r1), Ev("raise_limit", rl),
                                        Ev("open", r2)>>]
        ELSE [ok |-> FALSE, err |-> OSError(r1, 1), events |-> <<Ev("open", r1)>>]

\* A writer that was opened: its path, mode, the slot of its owner that
\* holds it, and the write and close calls it received.
NewWriter(path, qualities, slot) ==
    [path |-> path, qualities |-> qualities, slot |-> slot, nwrite |-> 0, nclose |-> 0]
CloseAll(fs, ws) == [i \in DOMAIN fs |-> IF i \in ws THEN [fs[i] EXCEPT !.nclose = @ + 1] ELSE fs[i]]

\* The result of a stage call: the stage and the writers after it, what it
\* returned ("True", "False", "None" or "raise"), the error it raised, and
\* the _open_raise_limit calls and Writer.write calls it made.
Result(d, fs, ret, err, opens, writes) ==
    [d |-> d, fs |-> fs, ret |-> ret, err |-> err, opens |-> opens, writes |-> writes]
DISCARD == "True"
KEEP == "False"

\* -------------------------------------------------------- Demultiplexer
DemuxTemplates == { <<"{name}", ".1">>, <<"out", ".1">> }
DemuxPairedTemplates == { <<"{name}", ".2">>, <<"out", ".2">> }
UntrimmedPaths == { NoPath, <<"untrimmed", ".1">>, <<"a", ".1">> }
UntrimmedPairedPaths == { NoPath, <<"untrimmed", ".2">> }

\* self.writers[key] = value
DictSet(dict, key, value) ==
    [k \in DOMAIN dict \cup {key} |-> IF k = key THEN value ELSE dict[k]]

\* Demultiplexer.__init__: the assertion on the template, then the fields.
DemultiplexerInitUnchecked(path_template) == TRUE
DemultiplexerInitOk(path_template) == Contains(path_template, "{name}")
DemultiplexerInit(path_template, untrimmed_path, qualities) ==
    [template |-> path_template, untrimmed_path |-> untrimmed_path,
     untrimmed_writer |-> NoWriter, writers |-> << >>,
     written |-> 0, written_bp |-> <<0, 0>>, qualities |-> qualities]

\* name not in self.writers
NotCachedEver(key, writers) == TRUE
NotCached(key, writers) == key \notin DOMAIN writers

\* self.untrimmed_writer is None and self.untrimmed_path is not None
NeedsUntrimmedWriterAlways(d) == d.untrimmed_path # NoPath
NeedsUntrimmedWriter(d) == d.untrimmed_writer = NoWriter /\ d.untrimmed_path # NoPath

\* Demultiplexer.__call__ on the demultiplexer d held in slot `who`.
DemultiplexerCall(who, d, fs, read, matches, env, wok) ==
    IF matches # << >>
    THEN LET name == LastName(matches)
             need == NotCached(name, d.writers)
             o == OpenRaiseLimit(Replace(d.template, "{name}", name), d.qualities, env)
         IN  IF need /\ ~o.ok
             THEN Result(d, fs, "raise", o.err, <<o>>, << >>)
             ELSE LET fs1 == IF need
                             THEN Append(fs, NewWriter(Replace(d.template, "{name}", name),
                                                       d.qualities, <<who, "name", name>>))
                             ELSE fs
                      d1 == IF need THEN [d EXCEPT !.writers = DictSet(@, name, Len(fs1))] ELSE d
                      d2 == [d1 EXCEPT !.written = @ + 1,
                                       !.written_bp[1] = @ + ReadLen(read)]
                      w == d2.writers[name]
                      os == IF need THEN <<o>> ELSE << >>
                 IN  IF wok
                     THEN Result(d2, [fs1 EXCEPT ![w].nwrite = @ + 1], DISCARD, NoError,
                                 os, <<[w |-> w, read |-> read]>>)
                     ELSE Result(d2, fs1, "raise", WriteError, os, << >>)
    ELSE LET need == NeedsUntrimmedWriter(d)
             o == OpenRaiseLimit(d.untrimmed_path, d.qualities, env)
         IN  IF need /\ ~o.ok
             THEN Result(d, fs, "raise", o.err, <<o>>, << >>)
             ELSE LET fs1 == IF need
                             THEN Append(fs, NewWriter(d.untrimmed_path, d.qualities,
                                                       <<who, "untrimmed">>))
                             ELSE fs
                      d1 == IF need THEN [d EXCEPT !.untrimmed_writer = Len(fs1)] ELSE d
                      os == IF need THEN <<o>> ELSE << >>
                 IN  IF d1.untrimmed_writer # NoWriter
                     THEN LET d2 == [d1 EXCEPT !.written = @ + 1,
                                               !.written_bp[1] = @ + ReadLen(read)]
                              w == d2.untrimmed_writer
                          IN  IF wok
                              THEN Result(d2, [fs1 EXCEPT ![w].nwrite = @ + 1], DISCARD,
                                          NoError, os, <<[w |-> w, read |-> read]>>)
                              ELSE Result(d2, fs1, "raise", WriteError, os, << >>)
                     ELSE Result(d1, fs1, DISCARD, NoError, os, << >>)

\* Demultiplexer.close: the writers it calls close() on.
DemultiplexerCloses(d) ==
    {d.writers[n] : n \in DOMAIN d.writers}
        \cup (IF d.untrimmed_writer # NoWriter THEN {d.untrimmed_writer} ELSE {})

\* -------------------------------------------------- PairedDemultiplexer
\* PairedDemultiplexer.__init__ builds two Demultiplexers, the first first.
PairedDemultiplexerInitOk(path_template, path_paired_template) ==
    DemultiplexerInitOk(path_template) /\ DemultiplexerInitOk(path_paired_template)
PairedDemultiplexerInit(path_template, path_paired_template, untrimmed_path, untrimmed_paired_path, qualities) ==
    [kind |-> "PairedDemultiplexer",
     _demultiplexer1 |-> DemultiplexerInit(path_template, untrimmed_path, qualities),
     _demultiplexer2 |-> DemultiplexerInit(path_paired_template, untrimmed_paired_path,
                                           qualities)]

\* PairedDemultiplexer.written and .written_bp (properties)
PairedWritten(p) == p._demultiplexer1.written + p._demultiplexer2.written
PairedWrittenBp(p) == <<p._demultiplexer1.written_bp[1], p._demultiplexer2.written_bp[1]>>

\* What a function body that ends without a return statement returns.
NoReturnValue == "None"

\* The match list self._demultiplexer2 is called with.
SecondCallMatchesOwn(matches1, matches2) == matches2
SecondCallMatches(matches1, matches2) == matches1

\* PairedDemultiplexer.__call__: both inner demultiplexers get matches1.
PairedDemultiplexerCall(p, fs, read1, read2, matches1, matches2, env1, env2, wok1, wok2) ==
    LET c1 == DemultiplexerCall("d1", p._demultiplexer1, fs, read1, matches1, env1, wok1)
        p1 == [p EXCEPT !._demultiplexer1 = c1.d]
    IN  IF c1.ret = "raise"
        THEN Result(p1, c1.fs, "raise", c1.err, c1.opens, c1.writes)
        ELSE LET c2 == DemultiplexerCall("d2", p._demultiplexer2, c1.fs, read2,
                                         SecondCallMatches(matches1, matches2), env2, wok2)
                 p2 == [p1 EXCEPT !._demultiplexer2 = c2.d]
             IN  IF c2.ret = "raise"
                 THEN Result(p2, c2.fs, "raise", c2.err, c1.opens \o c2.opens,
                             c1.writes \o c2.writes)
                 ELSE Result(p2, c2.fs, NoReturnValue, NoError, c1.opens \o c2.opens,
                             c1.writes \o c2.writes)

\* PairedDemultiplexer.close
PairedDemultiplexerCloses(p) ==
    DemultiplexerCloses(p._demultiplexer1) \cup DemultiplexerCloses(p._demultiplexer2)

\* ------------------------------------------- CombinatorialDemultiplexer
CombTemplates ==
    { <<"{name1}", "-", "{name2}", ".1">>, <<"{name1}", ".1">>, <<"{name2}", ".1">> }
CombPairedTemplates ==
    { <<"{name1}", "-", "{name2}", ".2">>, <<"{name1}", ".2">>, <<"{name2}", ".2">> }
UntrimmedNames == {None, "none", "a"}

\* CombinatorialDemultiplexer.__init__
CombinatorialDemultiplexerInitOk(path_template, path_paired_template) ==
    /\ Contains(path_template, "{name1}") /\ Contains(path_template, "{name2}")
    /\ Contains(path_paired_template, "{name1}") /\ Contains(path_paired_template, "{name2}")
CombinatorialDemultiplexerInit(path_template, path_paired_template, untrimmed_name, qualities) ==
    [kind |-> "CombinatorialDemultiplexer",
     template |-> path_template, paired_template |-> path_paired_template,
     untrimmed_name |-> untrimmed_name, writers |-> << >>,
     written |-> 0, written_bp |-> <<0, 0>>, qualities |-> qualities]

\* CombinatorialDemultiplexer._make_path
MakePath(template, name1, name2) ==
    Replace(Replace(template, "{name1}", name1), "{name2}", name2)

NameOf(matches) == IF matches # << >> THEN LastName(matches) ELSE None

\* The tail of CombinatorialDemultiplexer.__call__: count, then write both.
CombinatorialWrite(c, fs, key, read1, read2, os, wok1, wok2) ==
    LET w == c.writers[key]
        c1 == [c EXCEPT !.written = @ + 1,
                        !.written_bp[1] = @ + ReadLen(read1),
                        !.written_bp[2] = @ + ReadLen(read2)]
        fsA == [fs EXCEPT ![w[1]].nwrite = @ + 1]
        fsB == [fsA EXCEPT ![w[2]].nwrite = @ + 1]
    IN  IF ~wok1
        THEN Result(c1, fs, "raise", WriteError, os, << >>)
        ELSE IF ~wok2
        THEN Result(c1, fsA, "raise", WriteError, os, <<[w |-> w[1], read |-> read1]>>)
        ELSE Result(c1, fsB, DISCARD, NoError, os,
                    <<[w |-> w[1], read |-> read1], [w |-> w[2], read |-> read2]>>)

\* name1 is None or name2 is None, after the substitution of untrimmed_name
StillUnnamedBoth(n1, n2) == n1 = None /\ n2 = None
StillUnnamed(n1, n2) == n1 = None \/ n2 = None

\* CombinatorialDemultiplexer.__call__
CombinatorialDemultiplexerCall(c, fs, read1, read2, matches1, matches2, env1, env2, wok1, wok2) ==
    LET name1 == NameOf(matches1)
        name2 == NameOf(matches2)
        key == <<name1, name2>>
    IN  IF NotCached(key, c.writers)
        THEN LET n1 == IF name1 = None THEN c.untrimmed_name ELSE name1
                 n2 == IF name2 = None THEN c.untrimmed_name ELSE name2
             IN  IF StillUnnamed(n1, n2)
                 THEN Result(c, fs, DISCARD, NoError, << >>, << >>)
                 ELSE LET path1 == MakePath(c.template, n1, n2)
                          path2 == MakePath(c.paired_template, n1, n2)
                          o1 == OpenRaiseLimit(path1, c.qualities, env1)
                          fs1 == Append(fs, NewWriter(path1, c.qualities,
                                                      <<"cd", "1", name1, name2>>))
                          o2 == OpenRaiseLimit(path2, c.qualities, env2)
                          fs2 == Append(fs1, NewWriter(path2, c.qualities,
                                                       <<"cd", "2", name1, name2>>))
                          c1 == [c EXCEPT !.writers = DictSet(@, key, <<Len(fs1), Len(fs2)>>)]
                      IN  IF ~o1.ok
                          THEN Result(c, fs, "raise", o1.err, <<o1>>, << >>)
                          ELSE IF ~o2.ok
                          THEN Result(c, fs1, "raise", o2.err, <<o1, o2>>, << >>)
                          ELSE CombinatorialWrite(c1, fs2, key, read1, read2, <<o1, o2>>,
                                                  wok1, wok2)
        ELSE CombinatorialWrite(c, fs, key, read1, read2, << >>, wok1, wok2)

\* CombinatorialDemultiplexer.close
CombinatorialDemultiplexerCloses(c) ==
    UNION {{c.writers[k][1], c.writers[k][2]} : k \in DOMAIN c.writers}

\* ------------------------------------------------------ filter predicates
NoFilterObject == [kind |-> "None"]
TooShortReadFilter(minimum_length) ==
    [kind |-> "TooShortReadFilter", minimum_length |-> minimum_length]
TooLongReadFilter(maximum_length) ==
    [kind |-> "TooLongReadFilter", maximum_length |-> maximum_length]
DiscardUntrimmedFilter == [kind |-> "DiscardUntrimmedFilter"]
DiscardTrimmedFilter == [kind |-> "DiscardTrimmedFilter"]
Filters ==
    { TooShortReadFilter(1), TooLongReadFilter(0), DiscardUntrimmedFilter,
      DiscardTrimmedFilter }

\* filter(read, matches) for each filter class
FilterCall(filter, read, matches) ==
    CASE filter.kind = "TooShortReadFilter" -> ReadLen(read) < filter.minimum_length
      [] filter.kind = "TooLongReadFilter" -> ReadLen(read) > filter.maximum_length
      [] filter.kind = "DiscardUntrimmedFilter" -> matches = << >>
      [] filter.kind = "DiscardTrimmedFilter" -> matches # << >>

\* --------------------------------------------------------- NContentFilter
\* The reads an NContentFilter is given: upper- and lower-case N occur.
NBases == {"A", "N", "n"}
NReads == [name : ReadNames, sequence : Sequences0(NBases, MaxNLen)]
\* The count given to the constructor, as the ratio num / den.
Counts == [num : (-1)..MaxNum, den : 1..MaxDen]

\* str.lower, character by character
LowerIdentity(ch) == ch
Lower(ch) == IF ch = "N" THEN "n" ELSE IF ch = "A" THEN "a" ELSE ch
\* read.sequence.lower().count('n')
NCount(sequence) == Cardinality({i \in DOMAIN sequence : Lower(sequence[i]) = "n"})

\* a / b > cutoff, a true division of two integers with b > 0
RatioExceeds(a, b, cutoff) == a * cutoff.den > cutoff.num * b

\* NContentFilter.__init__: assert count >= 0, then the two fields.
NContentFilterInitOk(count) == count.num >= 0
NContentFilterInit(count) ==
    [kind |-> "NContentFilter", is_proportion |-> count.num < count.den, cutoff |-> count]

\* NContentFilter.__call__
NContentFilterCall(filter, read, matches) ==
    LET n_count == NCount(read.sequence)
    IN  IF filter.is_proportion
        THEN IF ReadLen(read) = 0 THEN FALSE
             ELSE RatioExceeds(n_count, ReadLen(read), filter.cutoff)
        ELSE RatioExceeds(n_count, 1, filter.cutoff)

\* -------------------------------------------------- NoFilter, Redirector
\* NoFilter.__init__
NoFilterInit(writer) ==
    [kind |-> "NoFilter", writer |-> writer, written |-> 0, written_bp |-> <<0, 0>>]
\* NoFilter.filtered (property)
NoFilterFiltered(st) == 0

\* What NoFilter.__call__ returns.
NoFilterKeeps == KEEP
NoFilterReturns == DISCARD

\* NoFilter.__call__
NoFilterCall(st, fs, read, matches, wok) ==
    IF wok
    THEN Result([st EXCEPT !.written = @ + 1, !.written_bp[1] = @ + ReadLen(read)],
                [fs EXCEPT ![st.writer].nwrite = @ + 1], NoFilterReturns, NoError, << >>,
                <<[w |-> st.writer, read |-> read]>>)
    ELSE Result(st, fs, "raise", WriteError, << >>, << >>)

\* Redirector.__init__
RedirectorInit(writer, filter) ==
    [kind |-> "Redirector", filtered |-> 0, writer |-> writer, filter |-> filter,
     written |-> 0, written_bp |-> <<0, 0>>]

\* self.writer is not None
WriterAttachedNever(writer) == FALSE
WriterAttached(writer) == writer # NoWriter

\* Redirector.__call__
RedirectorCall(st, fs, read, matches, wok) ==
    IF FilterCall(st.filter, read, matches)
    THEN LET st1 == [st EXCEPT !.filtered = @ + 1]
         IN  IF WriterAttached(st.writer)
             THEN IF wok
                  THEN Result([st1 EXCEPT !.written = @ + 1,
                                          !.written_bp[1] = @ + ReadLen(read)],
                              [fs EXCEPT ![st.writer].nwrite = @ + 1], DISCARD, NoError,
                              << >>, <<[w |-> st.writer, read |-> read]>>)
                  ELSE Result(st1, fs, "raise", WriteError, << >>, << >>)
             ELSE Result(st1, fs, DISCARD, NoError, << >>, << >>)
    ELSE Result(st, fs, KEEP, NoError, << >>, << >>)

\* ------------------------------------------------- side-channel writers
\* print(*fields, sep=sep, file=file): one line appended to the text sink.
PrintLine(file, fields, sep) == Append(file, [fields |-> fields, sep |-> sep])
\* What the matching stage's records answer: opaque values.
Wildcards(match) == "<wildcards>"
InfoRecord(match) == <<"<info_record>">>

AnnotatorInit(class) == [kind |-> class, file |-> << >>]

\* RestFileWriter.__call__
RestFileWriterCall(st, fs, read, matches) ==
    LET rest == matches[Len(matches)].rest
    IN  IF matches # << >> /\ rest # ""
        THEN Result([st EXCEPT !.file = PrintLine(@, <<rest, read.name>>, " ")], fs, KEEP,
                    NoError, << >>, << >>)
        ELSE Result(st, fs, KEEP, NoError, << >>, << >>)

\* WildcardFileWriter.__call__
WildcardFileWriterCall(st, fs, read, matches) ==
    IF matches # << >>
    THEN Result([st EXCEPT !.file = PrintLine(@, <<Wildcards(matches[Len(matches)]),
                                               read.name>>, " ")],
                fs, KEEP, NoError, << >>, << >>)
    ELSE Result(st, fs, KEEP, NoError, << >>, << >>)

\* InfoFileWriter.__call__ (the reads of this model carry no qualities)
InfoFileWriterCall(st, fs, read, matches) ==
    IF matches # << >>
    THEN Result([st EXCEPT !.file =
                    @ \o [i \in DOMAIN matches |->
                            [fields |-> InfoRecord(matches[i]), sep |-> "\t"]]],
                fs, KEEP, NoError, << >>, << >>)
    ELSE Result([st EXCEPT !.file = PrintLine(@, <<read.name, "-1", read.sequence, "">>, "\t")],
                fs, KEEP, NoError, << >>, << >>)

\* ------------------------------------------------------- PairedRedirector
PairFilterModes == {"any", "both", "first"}
ModeInputs == PairFilterModes \cup {"second"}

\* pair_filter_mode not in ('any', 'both', 'first')
ModeRejectedNever(pair_filter_mode) == FALSE
ModeRejected(pair_filter_mode) == pair_filter_mode \notin {"any", "both", "first"}

\* The strategy PairedRedirector.__init__ binds to self._is_filtered.
SelectStrategySwapped(filter, filter2, pair_filter_mode) ==
    IF filter2 = NoFilterObject THEN "_is_filtered_first"
    ELSE IF filter = NoFilterObject THEN "_is_filtered_second"
    ELSE IF pair_filter_mode = "any" THEN "_is_filtered_both"
    ELSE IF pair_filter_mode = "both" THEN "_is_filtered_any"
    ELSE "_is_filtered_first"
SelectStrategy(filter, filter2, pair_filter_mode) ==
    IF filter2 = NoFilterObject THEN "_is_filtered_first"
    ELSE IF filter = NoFilterObject THEN "_is_filtered_second"
    ELSE IF pair_filter_mode = "any" THEN "_is_filtered_any"
    ELSE IF pair_filter_mode = "both" THEN "_is_filtered_both"
    ELSE "_is_filtered_first"

\* PairedRedirector.__init__, the mode being accepted
PairedRedirectorInit(writer, filter, filter2, pair_filter_mode) ==
    [kind |-> "PairedRedirector", filtered |-> 0, writer |-> writer, filter |-> filter,
     filter2 |-> filter2, written |-> 0, written_bp |-> <<0, 0>>,
     _is_filtered |-> SelectStrategy(filter, filter2, pair_filter_mode)]

\* self._is_filtered(read1, read2, matches1, matches2): "True", "False", or
\* "raise" when the filter it calls is None.
Bool(b) == IF b THEN "True" ELSE "False"
IsFiltered(pr, read1, read2, matches1, matches2) ==
    CASE pr._is_filtered = "_is_filtered_any" ->
            Bool(FilterCall(pr.filter, read1, matches1)
                   \/ FilterCall(pr.filter2, read2, matches2))
      [] pr._is_filtered = "_is_filtered_both" ->
            Bool(FilterCall(pr.filter, read1, matches1)
                   /\ FilterCall(pr.filter2, read2, matches2))
      [] pr._is_filtered = "_is_filtered_first" ->
            IF pr.filter = NoFilterObject THEN "raise"
            ELSE Bool(FilterCall(pr.filter, read1, matches1))
      [] pr._is_filtered = "_is_filtered_second" ->
            IF pr.filter2 = NoFilterObject THEN "raise"
            ELSE Bool(FilterCall(pr.filter2, read2, matches2))

\* PairedRedirector.__call__
PairedRedirectorCall(pr, fs, read1, read2, matches1, matches2, wok) ==
    LET f == IsFiltered(pr, read1, read2, matches1, matches2)
        pr1 == [pr EXCEPT !.filtered = @ + 1]
        pr2 == [pr1 EXCEPT !.written = @ + 1,
                           !.written_bp[1] = @ + ReadLen(read1),
                           !.written_bp[2] = @ + ReadLen(read2)]
    IN  IF f = "raise" THEN Result(pr, fs, "raise", TypeError, << >>, << >>)
        ELSE IF f = "True"
        THEN IF pr.writer # NoWriter
             THEN IF wok
                  THEN Result(pr2, [fs EXCEPT ![pr.writer].nwrite = @ + 1], DISCARD, NoError,
                              << >>, <<[w |-> pr.writer, read |-> read1],
                                       [w |-> pr.writer, read |-> read2]>>)
                  ELSE Result(pr1, fs, "raise", WriteError, << >>, << >>)
             ELSE Result(pr1, fs, DISCARD, NoError, << >>, << >>)
        ELSE Result(pr, fs, KEEP, NoError, << >>, << >>)

\* ------------------------------------------------------------- the state
VARIABLES
    obj,      \* the demultiplexer under test (kind "none" before construction)
    files,    \* every writer opened so far, in order of opening
    last,     \* the last operation on obj: inputs, return value, effects
    ncalls,   \* stage calls made so far
    nclose,   \* close() calls made so far
    seen,     \* history: the keys routed so far and the open failures
    given,    \* the arguments the constructor was called with
    pipe,     \* the stages of a single-end pipeline, in order
    drv       \* the driver of the pipeline: its read and its position

vars == <<obj, files, last, ncalls, nclose, seen, given, pipe, drv>>

QualityModes == {TRUE}

\* What the environment does during one stage call: its answers to the
\* (up to two) _open_raise_limit calls and whether the (up to two) writes
\* succeed; everything after the first failure is left at its default.
DemuxOpenEnvs == { EnvOk, [o1 |-> "EACCES", rl |-> "-", o2 |-> "-"] }
EnvFails(env) == ~OpenRaiseLimit(NoPath, TRUE, env).ok
CallEnvs ==
    { e \in [env1 : DemuxOpenEnvs, env2 : DemuxOpenEnvs, wok1 : BOOLEAN, wok2 : BOOLEAN] :
        /\ EnvFails(e.env1) => e.env2 = EnvOk /\ e.wok1 /\ e.wok2
        /\ EnvFails(e.env2) => e.wok1 /\ e.wok2
        /\ ~e.wok1 => e.wok2 }
\* The demultiplexers never look into a read's sequence, only at its length.
PlainReads == {r \in Reads : \A i \in DOMAIN r.sequence : r.sequence[i] = "A"}

NoObject == [kind |-> "none"]
Failed(class, err) == [kind |-> "failed", class |-> class, err |-> err]
NoArguments == [class |-> "none"]
NoPipeline == << >>
Idle == [status |-> "idle"]
NoKey == << >>
\* The name a match list stands for in the history: that of its last match.
RoutedName(matches) ==
    IF Len(matches) = 0 THEN None ELSE matches[Len(matches)].adapter
LastOp(op, key, reads, r) ==
    [op |-> op, key |-> key, reads |-> reads, env |-> << >>, ret |-> r.ret, err |-> r.err,
     opens |-> r.opens, writes |-> r.writes]
NoOp == [op |-> "none", key |-> NoKey, reads |-> << >>, env |-> << >>, ret |-> "None",
         err |-> NoError, opens |-> << >>, writes |-> << >>]
OpenFailed(r) == r.ret = "raise" /\ r.err # WriteError
NoHistory == [keys |-> {}, openFailed |-> FALSE]
Seen(key, r) ==
    [keys |-> seen.keys \cup {key}, openFailed |-> seen.openFailed \/ OpenFailed(r)]

InitDemux ==
    /\ obj = NoObject
    /\ files = << >>
    /\ last = NoOp
    /\ ncalls = 0
    /\ nclose = 0
    /\ seen = NoHistory
    /\ given = NoArguments
    /\ pipe = NoPipeline
    /\ drv = Idle

\* Demultiplexer(path_template, untrimmed_path, qualities)
ConstructDemultiplexer ==
    /\ obj.kind = "none"
    /\ \E t \in DemuxTemplates, u \in UntrimmedPaths, q \in QualityModes :
          /\ obj' = IF DemultiplexerInitOk(t)
                 THEN    [kind |-> "Demultiplexer", d |-> DemultiplexerInit(t, u, q)]
                    ELSE Failed("Demultiplexer", AssertionError)
          /\ given' = [class |-> "Demultiplexer", templates |-> <<t>>]
    /\ UNCHANGED <<files, last, ncalls, nclose, seen, pipe, drv>>

\* PairedDemultiplexer(path_template, path_paired_template, ...)
ConstructPairedDemultiplexer ==
    /\ obj.kind = "none"
    /\ \E t \in DemuxTemplates, t2 \in DemuxPairedTemplates, u \in UntrimmedPaths,
          u2 \in UntrimmedPairedPaths, q \in QualityModes :
          /\ obj' = IF PairedDemultiplexerInitOk(t, t2)
                    THEN PairedDemultiplexerInit(t, t2, u, u2, q)
                    ELSE Failed("PairedDemultiplexer", AssertionError)
          /\ given' = [class |-> "PairedDemultiplexer", templates |-> <<t, t2>>]
    /\ UNCHANGED <<files, last, ncalls, nclose, seen, pipe, drv>>

\* CombinatorialDemultiplexer(path_template, path_paired_template, untrimmed_name, ...)
ConstructCombinatorialDemultiplexer ==
    /\ obj.kind = "none"
    /\ \E t \in CombTemplates, t2 \in CombPairedTemplates, u \in UntrimmedNames,
          q \in QualityModes :
          /\ obj' = IF CombinatorialDemultiplexerInitOk(t, t2)
                    THEN CombinatorialDemultiplexerInit(t, t2, u, q)
                    ELSE Failed("CombinatorialDemultiplexer", AssertionError)
          /\ given' = [class |-> "CombinatorialDemultiplexer", templates |-> <<t, t2>>]
    /\ UNCHANGED <<files, last, ncalls, nclose, seen, pipe, drv>>

\* demultiplexer(read, matches)
CallDemultiplexer ==
    /\ obj.kind = "Demultiplexer"
    /\ ncalls < MaxCalls
    /\ nclose = 0
    /\ \E read \in PlainReads, matches \in MatchLists, env \in OpenEnvs, wok \in BOOLEAN :
          LET r == DemultiplexerCall("d1", obj.d, files, read, matches, env, wok)
              key == <<RoutedName(matches)>>
          IN  /\ obj' = [obj EXCEPT !.d = r.d]
              /\ files' = r.fs
              /\ last' = LastOp("call", key, <<read>>, r)
              /\ seen' = Seen(key, r)
    /\ ncalls' = ncalls + 1
    /\ UNCHANGED <<nclose, given, pipe, drv>>

\* paired_demultiplexer(read1, read2, matches1, matches2)
CallPairedDemultiplexer ==
    /\ obj.kind = "PairedDemultiplexer"
    /\ ncalls < MaxCalls
    /\ nclose = 0
    /\ \E read1 \in PlainReads, read2 \in PlainReads, matches1 \in MatchLists,
          matches2 \in MatchLists2, e \in CallEnvs :
          LET r == PairedDemultiplexerCall(obj, files, read1, read2, matches1, matches2,
                                           e.env1, e.env2, e.wok1, e.wok2)
              key == <<RoutedName(matches1), RoutedName(matches2)>>
          IN  /\ obj' = r.d
              /\ files' = r.fs
              /\ last' = LastOp("call", key, <<read1, read2>>, r)
              /\ seen' = Seen(key, r)
    /\ ncalls' = ncalls + 1
    /\ UNCHANGED <<nclose, given, pipe, drv>>

\* combinatorial_demultiplexer(read1, read2, matches1, matches2)
CallCombinatorialDemultiplexer ==
    /\ obj.kind = "CombinatorialDemultiplexer"
    /\ ncalls < MaxCalls
    /\ nclose = 0
    /\ \E read1 \in PlainReads, read2 \in PlainReads, matches1 \in MatchLists,
          matches2 \in MatchLists2, e \in CallEnvs :
          LET r == CombinatorialDemultiplexerCall(obj, files, read1, read2, matches1,
                                                  matches2, e.env1, e.env2, e.wok1,
                                                  e.wok2)
              key == <<RoutedName(matches1), RoutedName(matches2)>>
          IN  /\ obj' = r.d
              /\ files' = r.fs
              /\ last' = LastOp("call", key, <<read1, read2>>, r)
              /\ seen' = Seen(key, r)
    /\ ncalls' = ncalls + 1
    /\ UNCHANGED <<nclose, given, pipe, drv>>

\* The writers close() calls close() on, for each variant.
Closes(o) ==
    IF o.kind = "Demultiplexer" THEN DemultiplexerCloses(o.d)
    ELSE IF o.kind = "PairedDemultiplexer" THEN PairedDemultiplexerCloses(o)
    ELSE CombinatorialDemultiplexerCloses(o)

\* close() on any of the three variants
Close ==
    /\ obj.kind \in {"Demultiplexer", "PairedDemultiplexer", "CombinatorialDemultiplexer"}
    /\ nclose < MaxClose
    /\ files' = CloseAll(files, Closes(obj))
    /\ nclose' = nclose + 1
    /\ last' = [NoOp EXCEPT !.op = "close"]
    /\ UNCHANGED <<obj, ncalls, seen, given, pipe, drv>>

NextDemux ==
    \/ ConstructDemultiplexer
    \/ ConstructPairedDemultiplexer
    \/ ConstructCombinatorialDemultiplexer
    \/ CallDemultiplexer
    \/ CallPairedDemultiplexer
    \/ CallCombinatorialDemultiplexer
    \/ Close

SpecDemux == InitDemux /\ [][NextDemux]_vars

\* One single-end Demultiplexer on its own.
NextDemultiplexer ==
    \/ ConstructDemultiplexer
    \/ CallDemultiplexer
    \/ Close

SpecDemultiplexer == InitDemux /\ [][NextDemultiplexer]_vars

\* One PairedDemultiplexer on its own.
NextPairedDemultiplexer ==
    \/ ConstructPairedDemultiplexer
    \/ CallPairedDemultiplexer
    \/ Close

SpecPairedDemultiplexer == InitDemux /\ [][NextPairedDemultiplexer]_vars

\* ------------------------------------------- _open_raise_limit on its own
OpenPaths == { <<"a", ".1">>, <<"b", ".1">>, <<"untrimmed", ".1">> }

\* _open_raise_limit(path, qualities), called directly
CallOpenRaiseLimit ==
    /\ ncalls < MaxCalls
    /\ \E path \in OpenPaths, qualities \in BOOLEAN, env \in OpenEnvs :
          LET o == OpenRaiseLimit(path, qualities, env)
          IN  /\ files' = IF o.ok
                          THEN Append(files, NewWriter(path, qualities, <<"caller">>))
                          ELSE files
              /\ last' = [NoOp EXCEPT !.op = "open", !.env = <<env>>, !.opens = <<o>>,
                                      !.err = o.err,
                                      !.ret = IF o.ok THEN "writer" ELSE "raise"]
    /\ ncalls' = ncalls + 1
    /\ UNCHANGED <<obj, nclose, seen, given, pipe, drv>>

NextOpen == CallOpenRaiseLimit

SpecOpen == InitDemux /\ [][NextOpen]_vars

\* ------------------------------------------- PairedRedirector on its own
GivenWriterPath == <<"discarded", ".fq">>
FilterInputs == {NoFilterObject, TooShortReadFilter(1), DiscardUntrimmedFilter}

\* PairedRedirector(writer, filter, filter2, pair_filter_mode)
ConstructPairedRedirector ==
    /\ obj.kind = "none"
    /\ \E has_writer \in BOOLEAN, filter \in FilterInputs, filter2 \in FilterInputs,
          mode \in ModeInputs :
          LET fs == IF has_writer THEN <<NewWriter(GivenWriterPath, TRUE, <<"given">>)>>
                    ELSE << >>
              writer == IF has_writer THEN Len(fs) ELSE NoWriter
          IN  /\ files' = fs
              /\ obj' = IF ModeRejected(mode)
                        THEN Failed("PairedRedirector", ValueError)
                        ELSE PairedRedirectorInit(writer, filter, filter2, mode)
              /\ given' = [class |-> "PairedRedirector", writer |-> writer,
                           filter |-> filter, filter2 |-> filter2, mode |-> mode]
    /\ UNCHANGED <<last, ncalls, nclose, seen, pipe, drv>>

\* What a filter answers on its own, for the history ("absent" for None).
Answer(filter, read, matches) ==
    IF filter = NoFilterObject THEN "absent"
    ELSE IF FilterCall(filter, read, matches) THEN "True" ELSE "False"

\* paired_redirector(read1, read2, matches1, matches2)
CallPairedRedirector ==
    /\ obj.kind = "PairedRedirector"
    /\ ncalls < MaxCalls
    /\ \E read1 \in PlainReads, read2 \in PlainReads, matches1 \in MatchLists,
          matches2 \in MatchLists2, wok \in BOOLEAN :
          LET r == PairedRedirectorCall(obj, files, read1, read2, matches1, matches2, wok)
              key == <<Answer(given.filter, read1, matches1),
                       Answer(given.filter2, read2, matches2)>>
          IN  /\ obj' = r.d
              /\ files' = r.fs
              /\ last' = LastOp("call", key, <<read1, read2>>, r)
    /\ ncalls' = ncalls + 1
    /\ UNCHANGED <<nclose, seen, given, pipe, drv>>

NextPairedRedirector ==
    \/ ConstructPairedRedirector
    \/ CallPairedRedirector

SpecPairedRedirector == InitDemux /\ [][NextPairedRedirector]_vars

\* ------------------------------------------------ a single-end pipeline
\* To determine what happens to a read, each stage is called in turn until
\* one returns True (module docstring); NoFilter is the last stage.
PipelineFilters == {TooShortReadFilter(1), DiscardUntrimmedFilter}
StageConfigs ==
    [kind : {"Redirector"}, filter : PipelineFilters, has_writer : BOOLEAN]
        \cup [kind : {"RestFileWriter", "WildcardFileWriter", "InfoFileWriter"},
              filter : {NoFilterObject}, has_writer : {FALSE}]
StagePath(i) == <<"stage", i, ".fq">>

\* The writers handed to the stages cfgs, and to the final NoFilter.
RECURSIVE PipelineWriters(_, _)
PipelineWriters(cfgs, i) ==
    IF i > Len(cfgs) THEN <<NewWriter(StagePath(i), TRUE, <<"given">>)>>
    ELSE (IF cfgs[i].has_writer THEN <<NewWriter(StagePath(i), TRUE, <<"given">>)>>
          ELSE << >>) \o PipelineWriters(cfgs, i + 1)
WriterOf(fs, i) ==
    IF \E w \in DOMAIN fs : fs[w].path = StagePath(i)
    THEN CHOOSE w \in DOMAIN fs : fs[w].path = StagePath(i)
    ELSE NoWriter

BuildStage(cfg, writer) ==
    IF cfg.kind = "Redirector" THEN RedirectorInit(writer, cfg.filter)
    ELSE AnnotatorInit(cfg.kind)

\* The pipeline is built: some stages, then NoFilter.
BuildPipeline ==
    /\ pipe = NoPipeline
    /\ \E cfgs \in Sequences0(StageConfigs, MaxStages) :
          LET fs == PipelineWriters(cfgs, 1)
          IN  /\ files' = fs
              /\ pipe' = [i \in 1..(Len(cfgs) + 1) |->
                            IF i <= Len(cfgs) THEN BuildStage(cfgs[i], WriterOf(fs, i))
                            ELSE NoFilterInit(WriterOf(fs, i))]
    /\ UNCHANGED <<obj, last, ncalls, nclose, seen, given, drv>>

\* The driver takes the next read and starts with the first stage.
NextRead ==
    /\ pipe # NoPipeline
    /\ drv.status \in {"idle", "done"}
    /\ ncalls < MaxCalls
    /\ \E read \in Reads, matches \in AllMatchLists :
          drv' = [status |-> "busy", read |-> read, matches |-> matches, idx |-> 1,
                  consumed |-> 0, writes |-> 0]
    /\ ncalls' = ncalls + 1
    /\ UNCHANGED <<obj, files, last, nclose, seen, given, pipe>>

\* A driver that does not stop at True but calls every stage.
DrivenThrough(r) ==
    [drv EXCEPT !.writes = @ + Len(r.writes),
                !.consumed = IF r.ret = DISCARD THEN @ + 1 ELSE @,
                !.idx = IF r.ret # "raise" /\ drv.idx < Len(pipe) THEN @ + 1 ELSE @,
                !.status = IF r.ret = "raise" THEN "error"
                           ELSE IF drv.idx < Len(pipe) THEN "busy"
                           ELSE "done"]
\* The driver after stage drv.idx answered r: stop at True, else go on.
Driven(r) ==
    [drv EXCEPT !.writes = @ + Len(r.writes),
                !.consumed = IF r.ret = DISCARD THEN @ + 1 ELSE @,
                !.idx = IF r.ret = KEEP /\ drv.idx < Len(pipe) THEN @ + 1 ELSE @,
                !.status = IF r.ret = "raise" THEN "error"
                           ELSE IF r.ret = DISCARD THEN "done"
                           ELSE IF drv.idx < Len(pipe) THEN "busy"
                           ELSE "unconsumed"]
AtStage(kind) == drv.status = "busy" /\ pipe[drv.idx].kind = kind
Stepped(r) ==
    /\ pipe' = [pipe EXCEPT ![drv.idx] = r.d]
    /\ files' = r.fs
    /\ drv' = Driven(r)
    /\ UNCHANGED <<obj, last, ncalls, nclose, seen, given>>

\* redirector(read, matches), called by the driver
CallRedirector ==
    /\ AtStage("Redirector")
    /\ \E wok \in BOOLEAN :
          Stepped(RedirectorCall(pipe[drv.idx], files, drv.read, drv.matches, wok))

\* no_filter(read, matches), called by the driver
CallNoFilter ==
    /\ AtStage("NoFilter")
    /\ \E wok \in BOOLEAN :
          Stepped(NoFilterCall(pipe[drv.idx], files, drv.read, drv.matches, wok))

\* rest_file_writer(read, matches), called by the driver
CallRestFileWriter ==
    /\ AtStage("RestFileWriter")
    /\ Stepped(RestFileWriterCall(pipe[drv.idx], files, drv.read, drv.matches))

\* wildcard_file_writer(read, matches), called by the driver
CallWildcardFileWriter ==
    /\ AtStage("WildcardFileWriter")
    /\ Stepped(WildcardFileWriterCall(pipe[drv.idx], files, drv.read, drv.matches))

\* info_file_writer(read, matches), called by the driver
CallInfoFileWriter ==
    /\ AtStage("InfoFileWriter")
    /\ Stepped(InfoFileWriterCall(pipe[drv.idx], files, drv.read, drv.matches))

NextPipeline ==
    \/ BuildPipeline
    \/ NextRead
    \/ CallRedirector
    \/ CallNoFilter
    \/ CallRestFileWriter
    \/ CallWildcardFileWriter
    \/ CallInfoFileWriter

SpecPipeline == InitDemux /\ [][NextPipeline]_vars

\* ------------------------------------------- NContentFilter on its own
\* NContentFilter(count)
ConstructNContentFilter ==
    /\ obj.kind = "none"
    /\ \E count \in Counts :
          /\ obj' = IF NContentFilterInitOk(count) THEN NContentFilterInit(count)
                    ELSE Failed("NContentFilter", AssertionError)
          /\ given' = [class |-> "NContentFilter", count |-> count]
    /\ UNCHANGED <<files, last, ncalls, nclose, seen, pipe, drv>>

\* n_content_filter(read, matches)
CallNContentFilter ==
    /\ obj.kind = "NContentFilter"
    /\ ncalls < MaxCalls
    /\ \E read \in NReads, matches \in MatchLists2 :
          last' = [NoOp EXCEPT !.op = "call", !.reads = <<read>>,
                               !.ret = Bool(NContentFilterCall(obj, read, matches))]
    /\ ncalls' = ncalls + 1
    /\ UNCHANGED <<obj, files, nclose, seen, given, pipe, drv>>

NextNContentFilter ==
    \/ ConstructNContentFilter
    \/ CallNContentFilter

SpecNContentFilter == InitDemux /\ [][NextNContentFilter]_vars

\* --------------------------------- Redirectors followed by NoFilter only
\* The filters of these pipelines look at the length of the read and at
\* whether there is a match, at nothing else.
RedirectorConfigs == [kind : {"Redirector"}, filter : PipelineFilters, has_writer : BOOLEAN]

\* The pipeline is built: some Redirectors, then NoFilter.
BuildRedirectorPipeline ==
    /\ pipe = NoPipeline
    /\ \E cfgs \in Sequences0(RedirectorConfigs, MaxStages) :
          LET fs == PipelineWriters(cfgs, 1)
          IN  /\ files' = fs
              /\ pipe' = [i \in 1..(Len(cfgs) + 1) |->
                            IF i <= Len(cfgs) THEN BuildStage(cfgs[i], WriterOf(fs, i))
                            ELSE NoFilterInit(WriterOf(fs, i))]
    /\ UNCHANGED <<obj, last, ncalls, nclose, seen, given, drv>>

\* The driver takes the next read and starts with the first stage.
NextPlainRead ==
    /\ pipe # NoPipeline
    /\ drv.status \in {"idle", "done"}
    /\ ncalls < MaxCalls
    /\ \E read \in PlainReads, matches \in MatchLists2 :
          drv' = [status |-> "busy", read |-> read, matches |-> matches, idx |-> 1,
                  consumed |-> 0, writes |-> 0]
    /\ ncalls' = ncalls + 1
    /\ UNCHANGED <<obj, files, last, nclose, seen, given, pipe>>

NextRedirectors ==
    \/ BuildRedirectorPipeline
    \/ NextPlainRead
    \/ CallRedirector
    \/ CallNoFilter

SpecRedirectors == InitDemux /\ [][NextRedirectors]_vars

\* ================================================================ claims
CountOp(events, op) == Cardinality({i \in DOMAIN events : events[i].op = op})
IsCall == last.op = "call"
Returned == last.op = "call" /\ last.ret # "raise"

\* C1: for every read driven through Redirectors and side-channel writers
\* ending with NoFilter, stopping at the first stage that returns consumed:
\* the read never runs off the end of the pipeline, a read whose processing
\* ended was consumed by exactly one stage, no stage that passed the read on
\* has written it, and the Writer.write calls for the read number 0 or 1.
\* (SpecPipeline)
C1_OneFate ==
    drv.status # "idle" =>
        /\ drv.status # "unconsumed"
        /\ drv.idx \in 1..Len(pipe)
        /\ drv.writes \in {0, 1}
        /\ drv.status = "done" => drv.consumed = 1
        /\ drv.status = "busy" => drv.consumed = 0 /\ drv.writes = 0
        /\ drv.status = "error" => drv.consumed = 0 /\ drv.writes = 0
C1_Witness ==
    /\ drv.status = "done"
    /\ Len(pipe) = 3
    /\ pipe[1].kind = "Redirector"
    /\ pipe[2].kind = "RestFileWriter"
    /\ drv.idx = 3
    /\ drv.consumed = 1
    /\ drv.writes = 1
    /\ ncalls = 2
    /\ pipe[1].filtered = 1

\* C2: every call of a Demultiplexer-family stage that completes without
\* error returns the consumed signal True.  (SpecDemux)
C2_AlwaysConsumed == Returned => last.ret = DISCARD

\* C4: on one Demultiplexer, the file of an adapter name is opened once, at
\* the first read whose last match carries that name, and every later such
\* read goes to that writer: no name has two writers, the templated opens
\* never outnumber the names seen, they equal them as long as no open has
\* failed, and every read that was written went to the writer of the name
\* of its last match.  (SpecDemultiplexer)
TemplatedWriters(who) ==
    {i \in DOMAIN files : Len(files[i].slot) = 3 /\ files[i].slot[1] = who}
NamesSeen == {k[1] : k \in seen.keys} \ {None}
C4_OpenedOncePerName ==
    obj.kind = "Demultiplexer" =>
        /\ \A i, j \in TemplatedWriters("d1") : files[i].slot = files[j].slot => i = j
        /\ Cardinality(TemplatedWriters("d1")) <= Cardinality(NamesSeen)
        /\ ~seen.openFailed => Cardinality(TemplatedWriters("d1")) = Cardinality(NamesSeen)
        /\ (Returned /\ last.key[1] # None) =>
              /\ Len(last.writes) = 1
              /\ files[last.writes[1].w].slot = <<"d1", "name", last.key[1]>>
              /\ files[last.writes[1].w].path = <<last.key[1], ".1">>
C4_Witness ==
    /\ obj.kind = "Demultiplexer"
    /\ ncalls = 2
    /\ Returned
    /\ Len(files) = 1
    /\ files[1].slot = <<"d1", "name", "a">>
    /\ files[1].nwrite = 2

\* C5: on a CombinatorialDemultiplexer, a call with an unmatched side: with
\* untrimmed_name None it writes nothing, opens nothing, caches nothing,
\* leaves the counters alone and reports consumed; with a label, a call that
\* returns has written the pair to the two files named with the label in
\* each unmatched slot, and written has grown by one.  (SpecDemux)
Labelled(name, label) == IF name = None THEN label ELSE name
C5_UnmatchedSide ==
    [][ ( /\ obj.kind = "CombinatorialDemultiplexer"
          /\ ncalls' = ncalls + 1
          /\ None \in {last'.key[1], last'.key[2]} )
        => IF obj.untrimmed_name = None
           THEN /\ last'.ret = DISCARD
                /\ last'.writes = << >>
                /\ last'.opens = << >>
                /\ files' = files
                /\ obj' = obj
           ELSE last'.ret # "raise" =>
                /\ last'.ret = DISCARD
                /\ obj'.written = obj.written + 1
                /\ Len(last'.writes) = 2
                /\ last'.writes[1].read = last'.reads[1]
                /\ last'.writes[2].read = last'.reads[2]
                /\ files'[last'.writes[1].w].path =
                      << Labelled(last'.key[1], obj.untrimmed_name), "-",
                         Labelled(last'.key[2], obj.untrimmed_name), ".1" >>
                /\ files'[last'.writes[2].w].path =
                      << Labelled(last'.key[1], obj.untrimmed_name), "-",
                         Labelled(last'.key[2], obj.untrimmed_name), ".2" >>
                /\ files'[last'.writes[1].w].nwrite >= 1
                /\ files'[last'.writes[2].w].nwrite >= 1
      ]_vars
C5_Witness ==
    /\ obj.kind = "CombinatorialDemultiplexer"
    /\ obj.untrimmed_name = None
    /\ ncalls = 2
    /\ obj.written = 1
    /\ IsCall
    /\ last.key = <<"a", None>>
    /\ last.ret = DISCARD
    /\ last.writes = << >>

\* C6: close() twice in a row does not double-release: after the second
\* close() every writer has received at most one close() call, the writers
\* the demultiplexer holds exactly one.  (SpecDemux)
C6_CloseTwiceReleasesOnce ==
    nclose = 2 =>
        \A i \in DOMAIN files :
            /\ files[i].nclose <= 1
            /\ i \in Closes(obj) => files[i].nclose = 1

\* C7: after any calls, failed opens included, and one close(): every writer
\* that was ever opened has been closed exactly once.  (SpecDemux)
C7_EveryOpenedWriterClosed ==
    nclose = 1 => \A i \in DOMAIN files : files[i].nclose = 1

\* C8 as stated: one call makes at most two open attempts and one
\* limit-raise; on EMFILE the limit is raised once and the open retried
\* once, a failed retry propagating; any other error propagates with no
\* limit-raise and no retry; success needs no limit-raise.  (SpecOpen)
Attempts(o) == CountOp(o.events, "open")
Raises(o) == CountOp(o.events, "raise_limit")
C8_RetryOnceAsStated ==
    last.op = "open" =>
        LET o == last.opens[1]
            env == last.env[1]
        IN  /\ Attempts(o) <= 2
            /\ Raises(o) <= 1
            /\ env.o1 = "ok" => o.ok /\ Raises(o) = 0 /\ Attempts(o) = 1
            /\ env.o1 = "EMFILE" =>
                  /\ Raises(o) = 1
                  /\ Attempts(o) = 2
                  /\ env.o2 = "ok" => o.ok
                  /\ env.o2 # "ok" => ~o.ok /\ o.err = OSError(env.o2, 2)
            /\ env.o1 \notin {"ok", "EMFILE"} =>
                  ~o.ok /\ o.err = OSError(env.o1, 1) /\ Raises(o) = 0 /\ Attempts(o) = 1

\* C8 amended: as above, but on EMFILE the open is retried exactly once when
\* the limit-raise call returns; when the limit-raise call itself fails there
\* is no second attempt and the call fails.  (SpecOpen)
C8_RetryOnce ==
    last.op = "open" =>
        LET o == last.opens[1]
            env == last.env[1]
        IN  /\ Attempts(o) <= 2
            /\ Raises(o) <= 1
            /\ env.o1 = "ok" => o.ok /\ Raises(o) = 0 /\ Attempts(o) = 1
            /\ env.o1 = "EMFILE" =>
                  /\ Raises(o) = 1
                  /\ env.rl = "ok" =>
                        /\ Attempts(o) = 2
                        /\ env.o2 = "ok" => o.ok
                        /\ env.o2 # "ok" => ~o.ok /\ o.err = OSError(env.o2, 2)
                  /\ env.rl # "ok" => ~o.ok /\ Attempts(o) = 1
            /\ env.o1 \notin {"ok", "EMFILE"} =>
                  ~o.ok /\ o.err = OSError(env.o1, 1) /\ Raises(o) = 0 /\ Attempts(o) = 1
            /\ o.ok <=> last.ret = "writer"
            /\ o.ok => files[Len(files)].nwrite = 0
C8_Witness ==
    /\ last.op = "open"
    /\ last.env[1].o1 = "EMFILE"
    /\ last.env[1].o2 = "EACCES"
    /\ last.ret = "raise"
    /\ last.err = OSError("EACCES", 2)
    /\ Attempts(last.opens[1]) = 2

\* C3: the PairedRedirector's discard decision is f1 or f2 (both filters,
\* mode any), f1 and f2 (both filters, mode both), f1 (both filters, mode
\* first), f1 when filter2 is absent, f2 when filter1 is absent, whatever
\* the mode then; f1 and f2 being what each filter answers on its own read.
\* A pair is discarded iff the call returns True or fails in the write of
\* the discarded pair.  (SpecPairedRedirector)
Expected(f1, f2, mode) ==
    IF f2 = "absent" THEN f1 = "True"
    ELSE IF f1 = "absent" THEN f2 = "True"
    ELSE IF mode = "any" THEN f1 = "True" \/ f2 = "True"
    ELSE IF mode = "both" THEN f1 = "True" /\ f2 = "True"
    ELSE f1 = "True"
C3_PairDecision ==
    (IsCall /\ obj.kind = "PairedRedirector" /\ last.key # <<"absent", "absent">>) =>
        LET expected == Expected(last.key[1], last.key[2], given.mode)
        IN  /\ last.ret \in {DISCARD, KEEP} \/ (last.ret = "raise" /\ last.err = WriteError)
            /\ expected <=> last.ret # KEEP
            /\ (given.mode = "first" /\ last.key[1] = "False") => last.ret = KEEP
C3_Witness ==
    /\ IsCall
    /\ obj.kind = "PairedRedirector"
    /\ given.mode = "both"
    /\ last.key = <<"True", "False">>
    /\ last.ret = KEEP
    /\ obj.filtered = 1

\* C9: a PairedRedirector given a pair_filter_mode outside any/both/first is
\* never constructed: construction fails with ValueError whatever filters
\* and writer are passed; with one of the three modes it succeeds, with
\* filtered = 0, written = 0 and written_bp = [0, 0].  (SpecPairedRedirector)
C9_ModeChecked ==
    given.class = "PairedRedirector" =>
        /\ given.mode \notin PairFilterModes =>
              obj.kind = "failed" /\ obj.err = ValueError /\ ncalls = 0
        /\ given.mode \in PairFilterModes =>
              /\ obj.kind = "PairedRedirector"
              /\ ncalls = 0 =>
                    /\ obj.filtered = 0
                    /\ obj.written = 0
                    /\ obj.written_bp = <<0, 0>>
C9_Witness ==
    /\ given.class = "PairedRedirector"
    /\ given.mode = "second"
    /\ given.filter2 = NoFilterObject
    /\ given.filter # NoFilterObject
    /\ obj.kind = "failed"
    /\ obj.err = ValueError

\* C10: a demultiplexer whose template lacks a required placeholder is never
\* constructed: construction fails, with no read processed and no file
\* opened.  (SpecDemux)
Lacks(template, token) == \A i \in DOMAIN template : template[i] # token
C10_BadTemplateFailsFast ==
    LET bad == IF given.class = "CombinatorialDemultiplexer"
               THEN \E i \in DOMAIN given.templates :
                       Lacks(given.templates[i], "{name1}")
                          \/ Lacks(given.templates[i], "{name2}")
               ELSE \E i \in DOMAIN given.templates : Lacks(given.templates[i], "{name}")
    IN  given.class # "none" =>
           /\ bad => /\ obj.kind = "failed"
                     /\ obj.err = AssertionError
                     /\ files = << >>
                     /\ ncalls = 0
                     /\ last = NoOp
           /\ ~bad => obj.kind = given.class
C10_Witness ==
    /\ obj.kind = "failed"
    /\ given.class = "CombinatorialDemultiplexer"
    /\ ~Lacks(given.templates[1], "{name1}")
    /\ ~Lacks(given.templates[1], "{name2}")
    /\ Lacks(given.templates[2], "{name2}")


\* C11: NContentFilter, with n the case-insensitive count of N in the read
\* and L its length: for a cutoff c < 1 it discards iff L > 0 and n / L > c
\* (a zero-length read is kept, a fraction equal to c is kept); for a cutoff
\* c >= 1 it discards iff n > c.  (SpecNContentFilter)
CountN(sequence) == Cardinality({i \in DOMAIN sequence : sequence[i] \in {"N", "n"}})
C11_NContent ==
    (IsCall /\ obj.kind = "NContentFilter") =>
        LET c == given.count
            n == CountN(last.reads[1].sequence)
            L == Len(last.reads[1].sequence)
            discards == last.ret = "True"
        IN  /\ last.ret \in {"True", "False"}
            /\ c.num >= 0
            /\ IF c.num < c.den
               THEN /\ discards <=> (L > 0 /\ n * c.den > c.num * L)
                    /\ L = 0 => ~discards
                    /\ (L > 0 /\ n * c.den = c.num * L) => ~discards
               ELSE /\ discards <=> n * c.den > c.num
                    /\ (c.num = c.den /\ n = 1) => ~discards
                    /\ (c.num = c.den /\ n = 2) => discards
C11_Witness ==
    /\ IsCall
    /\ obj.kind = "NContentFilter"
    /\ given.count = [num |-> 1, den |-> 2]
    /\ last.reads[1].sequence = <<"n", "A">>
    /\ last.ret = "False"

\* C12: on a Demultiplexer, a call with an empty match list: with a
\* fallback path configured the fallback writer is opened at most once, by
\* the first such call whose open succeeds, and a call that returns has
\* written the read to it, with written increased by 1 and written_bp[0] by
\* the read length; with no fallback path the read is dropped with no open,
\* no write, and the counters unchanged.  (SpecDemultiplexer)
UntrimmedWriters(fs) == {i \in DOMAIN fs : fs[i].slot = <<"d1", "untrimmed">>}
C12_Fallback ==
    [][ ( /\ obj.kind = "Demultiplexer"
          /\ ncalls' = ncalls + 1
          /\ last'.key = <<None>> )
        => IF obj.d.untrimmed_path = NoPath
           THEN /\ last'.ret = DISCARD
                /\ last'.opens = << >>
                /\ last'.writes = << >>
                /\ files' = files
                /\ obj' = obj
           ELSE /\ Cardinality(UntrimmedWriters(files')) <= 1
                /\ UntrimmedWriters(files) # {} =>
                      /\ last'.opens = << >>
                      /\ UntrimmedWriters(files') = UntrimmedWriters(files)
                /\ last'.ret # "raise" =>
                      /\ last'.ret = DISCARD
                      /\ UntrimmedWriters(files) = {} => Len(last'.opens) = 1
                      /\ Len(last'.writes) = 1
                      /\ last'.writes[1].read = last'.reads[1]
                      /\ last'.writes[1].w \in UntrimmedWriters(files')
                      /\ files'[last'.writes[1].w].path = obj.d.untrimmed_path
                      /\ files'[last'.writes[1].w].nwrite =
                            1 + (IF last'.writes[1].w \in DOMAIN files
                                 THEN files[last'.writes[1].w].nwrite ELSE 0)
                      /\ obj'.d.written = obj.d.written + 1
                      /\ obj'.d.written_bp[1] =
                            obj.d.written_bp[1] + Len(last'.reads[1].sequence)
                      /\ obj'.d.written_bp[2] = obj.d.written_bp[2]
      ]_vars
C12_Witness ==
    /\ obj.kind = "Demultiplexer"
    /\ obj.d.untrimmed_path # NoPath
    /\ ncalls = 2
    /\ Returned
    /\ seen.keys = {<<None>>}
    /\ ~seen.openFailed
    /\ Len(files) = 1
    /\ files[1].nwrite = 2
    /\ obj.d.written = 2

\* C13: in _open_raise_limit, when the first open fails with EMFILE and the
\* limit-raise call itself then fails, the error that reaches the caller is
\* the original EMFILE error of the open, not the error of the limit-raise
\* call, and no second open is attempted.  (SpecOpen)
C13_OriginalErrorPropagates ==
    (last.op = "open" /\ last.env[1].o1 = "EMFILE" /\ last.env[1].rl = "fail") =>
        /\ last.ret = "raise"
        /\ last.err = OSError("EMFILE", 1)
        /\ Attempts(last.opens[1]) = 1

\* C14: on a PairedDemultiplexer the destinations of read1 and read2 depend
\* on read1's match list only: from every reachable state in which a call
\* can be made, the call gives the same opens, the same writes to the same
\* writers, the same counters and the same outcome whatever matches2 is, so
\* two runs that differ only in matches2 stay in step; a matched pair that
\* was written went to the two files named after read1's last match.
\* (SpecPairedDemultiplexer)
C14_RoutedByRead1 ==
    obj.kind = "PairedDemultiplexer" =>
        /\ (ncalls < MaxCalls /\ nclose = 0) =>
           \A read1 \in PlainReads, read2 \in PlainReads, matches1 \in MatchLists,
              matches2 \in MatchLists2, e \in CallEnvs :
              PairedDemultiplexerCall(obj, files, read1, read2, matches1, matches2,
                                      e.env1, e.env2, e.wok1, e.wok2)
                 = PairedDemultiplexerCall(obj, files, read1, read2, matches1, << >>,
                                           e.env1, e.env2, e.wok1, e.wok2)
        /\ (Returned /\ last.key[1] # None) =>
              /\ Len(last.writes) = 2
              /\ files[last.writes[1].w].path = <<last.key[1], ".1">>
              /\ files[last.writes[2].w].path = <<last.key[1], ".2">>
              /\ last.writes[1].read = last.reads[1]
              /\ last.writes[2].read = last.reads[2]
C14_Witness ==
    /\ obj.kind = "PairedDemultiplexer"
    /\ Returned
    /\ last.key = <<"a", "b">>
    /\ Len(files) = 2
    /\ files[1].path = <<"a", ".1">>
    /\ files[2].path = <<"a", ".2">>
    /\ files[2].nwrite = 1

\* C15: on a Redirector, as long as no write fails: a call returns consumed
\* iff its filter returned true; such a call adds 1 to filtered and, with a
\* writer attached, writes the read and adds 1 to written and the read
\* length to written_bp[0]; a call whose filter returned false changes no
\* counter and writes nothing; hence written equals filtered with a writer
\* attached and 0 without one, written <= filtered always, and written_bp[1]
\* stays 0.  (SpecRedirectors)
C15_RedirectorCounters ==
    /\ [](\A i \in DOMAIN pipe :
            pipe[i].kind = "Redirector" =>
                /\ pipe[i].written <= pipe[i].filtered
                /\ pipe[i].written_bp[2] = 0
                /\ drv.status # "error" =>
                      pipe[i].written =
                         (IF pipe[i].writer # NoWriter THEN pipe[i].filtered ELSE 0))
    /\ [][ (AtStage("Redirector") /\ drv' # drv /\ drv'.status # "error") =>
           LET st == pipe[drv.idx]
               after == pipe'[drv.idx]
               f == FilterCall(st.filter, drv.read, drv.matches)
           IN  /\ f <=> drv'.status = "done"
               /\ ~f => /\ after = st
                        /\ files' = files
                        /\ drv'.status = "busy"
                        /\ drv'.idx = drv.idx + 1
               /\ f => /\ after.filtered = st.filtered + 1
                       /\ drv'.consumed = 1
                       /\ IF st.writer # NoWriter
                          THEN /\ after.written = st.written + 1
                               /\ after.written_bp[1] = st.written_bp[1] + Len(drv.read.sequence)
                               /\ files'[st.writer].nwrite = files[st.writer].nwrite + 1
                               /\ drv'.writes = 1
                          ELSE /\ after.written = st.written
                               /\ after.written_bp = st.written_bp
                               /\ files' = files
               /\ \A j \in DOMAIN pipe : j # drv.idx => pipe'[j] = pipe[j]
         ]_vars
C15_Witness ==
    /\ pipe # NoPipeline
    /\ pipe[1].kind = "Redirector"
    /\ pipe[1].filter = DiscardUntrimmedFilter
    /\ pipe[1].writer # NoWriter
    /\ pipe[1].filtered = 2
    /\ pipe[1].written = 2
    /\ pipe[1].written_bp = <<2, 0>>
    /\ files[pipe[1].writer].nwrite = 2
    /\ drv.status = "done"

\* C16: RestFileWriter appends exactly one line to its text sink iff the
\* match list is non-empty and the last match's rest is non-empty, the line
\* being the rest, one tab character, then the read name; otherwise it
\* appends nothing; it returns not consumed in all cases.  (SpecPipeline)
C16_RestLine ==
    [][ (AtStage("RestFileWriter") /\ drv' # drv) =>
           LET st == pipe[drv.idx]
               after == pipe'[drv.idx]
               m == drv.matches
               has_rest == m # << >> /\ m[Len(m)].rest # ""
           IN  /\ drv'.consumed = 0
               /\ drv'.status # "done"
               /\ has_rest =>
                     after.file = Append(st.file, [fields |-> <<m[Len(m)].rest, drv.read.name>>,
                                                   sep |-> "\t"])
               /\ ~has_rest => after.file = st.file
      ]_vars

\* C17: over the lifetime of one Demultiplexer or one
\* CombinatorialDemultiplexer no output path is opened for writing more than
\* once, also when an adapter's name equals the untrimmed_name label and
\* when the template with an adapter name substituted equals the untrimmed
\* path.  (SpecDemux)
C17_NoPathOpenedTwice ==
    obj.kind \in {"Demultiplexer", "CombinatorialDemultiplexer"} =>
        \A i, j \in DOMAIN files : files[i].path = files[j].path => i = j

\* C18: for every pair a PairedDemultiplexer processes, whichever of its two
\* fallback paths are configured, either both read1 and read2 are written or
\* neither is: a call that returns adds the same amount to the written
\* counts of the two inner demultiplexers, which therefore stay equal.
\* (SpecPairedDemultiplexer)
C18_SidesInStep ==
    [][ ( /\ obj.kind = "PairedDemultiplexer"
          /\ ncalls' = ncalls + 1
          /\ last'.ret # "raise" )
        => /\ Len(last'.writes) \in {0, 2}
           /\ obj'._demultiplexer1.written - obj._demultiplexer1.written
                 = obj'._demultiplexer2.written - obj._demultiplexer2.written
      ]_vars

\* C19: in a stage that writes, the written counter equals the number of
\* Writer.write calls that completed and written_bp the summed lengths of
\* those reads, also after calls in which an open or a write failed: a call
\* that raises leaves written and written_bp unchanged, and a Demultiplexer's
\* written equals the writes its writers completed.  (SpecDemux)
RECURSIVE WritesDone(_)
WritesDone(fs) == IF fs = << >> THEN 0 ELSE fs[Len(fs)].nwrite + WritesDone(SubSeq(fs, 1, Len(fs) - 1))
Counters(o) ==
    IF o.kind = "Demultiplexer" THEN <<o.d.written, o.d.written_bp>>
    ELSE <<o.written, o.written_bp>>
C19_WrittenCountsWrites ==
    /\ [](obj.kind = "Demultiplexer" => obj.d.written = WritesDone(files))
    /\ [][ ( /\ obj.kind \in {"Demultiplexer", "CombinatorialDemultiplexer"}
             /\ ncalls' = ncalls + 1
             /\ last'.ret = "raise" )
           => Counters(obj') = Counters(obj)
         ]_vars

\* C20: for a pipeline of Redirector stages ending with NoFilter, driven in
\* order with a stop at the first consumed stage: after N reads processed
\* without error, the filtered counters of the Redirectors plus the written
\* counter of the NoFilter sum to N, each read adding exactly 1 to exactly
\* one of them, and the NoFilter's filtered stays 0.  (SpecRedirectors)
RECURSIVE Accounted(_)
Accounted(stages) == IF stages = << >> THEN 0 ELSE Accounted(SubSeq(stages, 1, Len(stages) - 1)) + (IF stages[Len(stages)].kind = "Redirector" THEN stages[Len(stages)].filtered ELSE IF stages[Len(stages)].kind = "NoFilter" THEN stages[Len(stages)].written ELSE 0)
OnlyRedirectors == \A i \in 1..(Len(pipe) - 1) : pipe[i].kind = "Redirector"
C20_EveryReadCountedOnce ==
    /\ [](( /\ pipe # NoPipeline
            /\ OnlyRedirectors
            /\ drv.status # "error" ) =>
             /\ pipe[Len(pipe)].kind = "NoFilter"
             /\ NoFilterFiltered(pipe[Len(pipe)]) = 0
             /\ drv.status \in {"idle", "done"} => Accounted(pipe) = ncalls
             /\ drv.status = "busy" => Accounted(pipe) = ncalls - 1)
    /\ [][ (drv.status = "busy" /\ drv'.status = "done" /\ OnlyRedirectors) =>
              /\ Accounted(pipe') = Accounted(pipe) + 1
              /\ \E i \in DOMAIN pipe :
                    /\ Accounted(<<pipe'[i]>>) = Accounted(<<pipe[i]>>) + 1
                    /\ \A j \in DOMAIN pipe : j # i => pipe'[j] = pipe[j]
         ]_vars
C20_Witness ==
    /\ Len(pipe) = 3
    /\ OnlyRedirectors
    /\ drv.status = "done"
    /\ ncalls = 2
    /\ pipe[1].filtered = 0
    /\ pipe[2].filtered = 1
    /\ pipe[3].written = 1
====
